---- MODULE Spec2Model ----
(***************************************************************************)
(* Verification model of the RAFT repository:                              *)
(*   RLog   - raft_node.py : RaftNode (election, replication, commit,      *)
(*            apply, client API, partition hook)                           *)
(*   BOrder - pBFT/pbft_node.py : PBFTNode (pre-prepare / prepare /        *)
(*            commit quorum machine, block validation, malicious knob)     *)
(* Every thread of a node is a process with its own program counter; a     *)
(* synchronous RPC is three steps: the caller builds the request (reading  *)
(* its fields without the lock, as the code does), the callee's handler    *)
(* runs under the callee's lock, the caller merges the reply under its own *)
(* lock.  An RPC may also fail (timeout, refused): the caller's except     *)
(* branch swallows it and the loop goes on.  Time is kept only as far as   *)
(* the election timer needs it: last_heartbeat is Fresh or Expired.        *)
(***************************************************************************)
EXTENDS Integers, Sequences, FiniteSets, TLC

(***************************************************************************)
(* Bounds of the RLog model                                                *)
(***************************************************************************)
NumNodes == 3
MaxTerm == 2
MaxLog == 1
MaxElections == 2
MaxFail == 1
MaxLogGet == 2
MaxElectionsGet == 1
MaxLogLong == 3
MaxTermLong == 3
MaxFailLong == 2

Node == 1..NumNodes
None == 0

FOLLOWER == "FOLLOWER"
CANDIDATE == "CANDIDATE"
LEADER == "LEADER"

Keys == {"x"}
Values == {"a", "b"}

VARIABLES
    current_term, voted_for, log, commit_index, last_applied,
    next_index, match_index, state, leader_id, kv_store, blocked_peers,
    election,      \* per node: the election_loop thread
    heartbeat,     \* per node: the heartbeat_loop thread
    leaderHist,    \* history: <<n, t>> for every become_leader of n in term t
    applied,       \* history: per node, the entries it applied, in order
    elections,     \* history: number of elections started so far
    failures,      \* history: number of peer calls that raised so far
    client,        \* the ClientGet call that is running, and the last reply
    last_heartbeat,\* per node: the election timer, Fresh or Expired
    voteHist       \* history: <<p, c, t>> for every vote of p for c in term t

VARIABLES
    view_number, sequence_number, blockchain, pending_block,
    pre_prepare_log, prepare_log, commit_log, is_malicious, malicious_type,
    threads,       \* the broadcast worker threads that are running
    down,          \* environment: the nodes whose server is not reachable
    running,       \* scheduler: the worker that ran last and has not finished
    preempt_left,  \* scheduler: how many more times such a worker may be left
    proposed,      \* history: the blocks the Primary has proposed, in order
    toggles,       \* history: number of SetMaliciousBehavior calls so far
    ever_malicious \* history: the nodes that have been made malicious

VARIABLES
    quorum_sets    \* two sets of Quorum nodes, the Byzantine nodes, and the
                   \* honest nodes the two sets share once computed

bvars == <<view_number, sequence_number, blockchain, pending_block,
           pre_prepare_log, prepare_log, commit_log, is_malicious,
           malicious_type, threads, down, running, preempt_left, proposed,
           toggles, ever_malicious, quorum_sets>>

rvars == <<current_term, voted_for, log, commit_index, last_applied,
           next_index, match_index, state, leader_id, kv_store, blocked_peers,
           election, heartbeat, leaderHist, applied, elections, failures,
           client, last_heartbeat, voteHist>>

vars == <<rvars, bvars>>

(***************************************************************************)
(* Helpers                                                                 *)
(***************************************************************************)
\* self.peers: every node but self; peers.items() iterates in id order
NumPeers == NumNodes - 1
PeerAt(n, k) == IF k < n THEN k ELSE k + 1

\* 0-based indexing of the Python list self.log
At(lg, i) == lg[i + 1]
Prefix(lg, n) == SubSeq(lg, 1, n)
Suffix(lg, i) == SubSeq(lg, i + 1, Len(lg))
Min(a, b) == IF a < b THEN a ELSE b
Max(a, b) == IF a > b THEN a ELSE b

\* strict majority test used by the election tally and the commit rule
Majority(c) == c > (NumPeers + 1) \div 2

Entry(t, k, v) == [term |-> t, key |-> k, value |-> v]

\* a reply of the client API: ClientSetResponse(success), with the index at
\* which the entry was put, or ClientGetResponse(found, value), status
\* "not_leader" for the abort of ClientGet
Reply(op, status, ok, v, i) ==
    [op |-> op, status |-> status, success |-> ok, value |-> v, index |-> i]

NoReply == Reply("none", "none", FALSE, "", -1)

IdleClient == [pc |-> "idle", node |-> 0, key |-> "", reply |-> NoReply]

\* last_heartbeat, by what the test of lines 85-86 gives: Fresh while less
\* than the timeout has passed since it was set, Expired afterwards
Fresh == "fresh"
Expired == "expired"

IdleElection == [pc |-> "idle", peer |-> 0, votes |-> 0, rpc |-> <<>>]
IdleHeartbeat == [pc |-> "off", peer |-> 0, rpc |-> <<>>]

RInit ==
    /\ current_term = [n \in Node |-> 0]
    /\ voted_for = [n \in Node |-> None]
    /\ log = [n \in Node |-> <<>>]
    /\ commit_index = [n \in Node |-> -1]
    /\ last_applied = [n \in Node |-> -1]
    /\ next_index = [n \in Node |-> [p \in Node |-> 0]]
    /\ match_index = [n \in Node |-> [p \in Node |-> -1]]
    /\ state = [n \in Node |-> FOLLOWER]
    /\ leader_id = [n \in Node |-> None]
    /\ kv_store = [n \in Node |-> [k \in Keys |-> ""]]
    /\ blocked_peers = [n \in Node |-> {}]
    /\ election = [n \in Node |-> IdleElection]
    /\ heartbeat = [n \in Node |-> IdleHeartbeat]
    /\ leaderHist = {}
    /\ applied = [n \in Node |-> <<>>]
    /\ elections = 0
    /\ failures = 0
    /\ client = IdleClient
    /\ last_heartbeat = [n \in Node |-> Expired]
    /\ voteHist = {}

(***************************************************************************)
(* apply_committed_logs, as a function of (log, last_applied, commit_index)*)
(* returning the new kv_store, last_applied and the applied history.       *)
(***************************************************************************)
RECURSIVE ApplyLoop(_, _, _, _, _, _)
ApplyLoop(lg, la, ci, kv, hist, t) ==
    IF la < ci
    THEN LET e == At(lg, la + 1)
         IN ApplyLoop(lg, la + 1, ci, [kv EXCEPT ![e.key] = e.value],
                      Append(hist, [e |-> e, t |-> t]), t)
    ELSE [kv |-> kv, la |-> la, hist |-> hist]

apply_committed_logs(n, lg, ci, t) ==
    LET r == ApplyLoop(lg, last_applied[n], ci, kv_store[n], applied[n], t)
    IN /\ kv_store' = [kv_store EXCEPT ![n] = r.kv]
       /\ last_applied' = [last_applied EXCEPT ![n] = r.la]
       /\ applied' = [applied EXCEPT ![n] = r.hist]

(***************************************************************************)
(* update_commit_index: highest i in commit_index+1 .. len(log)-1 that is  *)
(* on a majority (by match_index) and carries the current term.            *)
(***************************************************************************)
ReplicaCount(mi, n, i) == 1 + Cardinality({p \in Node \ {n} : mi[p] >= i})

\* the commit rule without the test of the term of the entry
CommitCandidatesAnyTerm(n, mi) ==
    {i \in (commit_index[n] + 1)..(Len(log[n]) - 1) :
        Majority(ReplicaCount(mi, n, i))}

CommitCandidates(n, mi) ==
    {i \in (commit_index[n] + 1)..(Len(log[n]) - 1) :
        /\ Majority(ReplicaCount(mi, n, i))
        /\ At(log[n], i).term = current_term[n]}

MaxOf(S) == CHOOSE x \in S : \A y \in S : y <= x

update_commit_index(n, mi) ==
    IF CommitCandidates(n, mi) # {}
    THEN LET i == MaxOf(CommitCandidates(n, mi))
         IN /\ commit_index' = [commit_index EXCEPT ![n] = i]
            /\ apply_committed_logs(n, log[n], i, current_term[n])
    ELSE UNCHANGED <<commit_index, kv_store, last_applied, applied>>

(***************************************************************************)
(* election_loop                                                           *)
(***************************************************************************)
\* lines 81-94: timeout on a non-leader starts an election
ElectionTimeout(n) ==
    /\ election[n].pc = "idle"
    /\ state[n] # LEADER
    /\ elections' = elections + 1
    /\ state' = [state EXCEPT ![n] = CANDIDATE]
    /\ current_term' = [current_term EXCEPT ![n] = @ + 1]
    /\ voted_for' = [voted_for EXCEPT ![n] = n]
    /\ election' = [election EXCEPT ![n] =
                       [pc |-> "send", peer |-> 1, votes |-> 1, rpc |-> <<>>]]
    /\ voteHist' = voteHist \cup {<<n, n, current_term[n] + 1>>}
    /\ UNCHANGED <<bvars, last_heartbeat, client, log, commit_index, last_applied, next_index, match_index,
                   leader_id, kv_store, blocked_peers, heartbeat, leaderHist,
                   applied, failures>>

\* the loop moves on to the next peer, or to the tally after the last one
NextPeer(el) ==
    IF el.peer < NumPeers
    THEN [el EXCEPT !.pc = "send", !.peer = @ + 1, !.rpc = <<>>]
    ELSE [el EXCEPT !.pc = "tally", !.peer = 0, !.rpc = <<>>]

\* lines 99-117: skip a blocked peer, else build the RequestVote request
\* from the fields as they are now (read outside the lock)
ElectionSend(n) ==
    /\ election[n].pc = "send"
    /\ LET p == PeerAt(n, election[n].peer)
           last_index == Len(log[n]) - 1
           last_term == IF last_index >= 0 THEN At(log[n], last_index).term ELSE 0
       IN election' = [election EXCEPT ![n] =
             IF p \in blocked_peers[n]
             THEN NextPeer(@)
             ELSE [@ EXCEPT !.pc = "wait",
                            !.rpc = [type |-> "req",
                                     term |-> current_term[n],
                                     last_log_index |-> last_index,
                                     last_log_term |-> last_term]]]
    /\ UNCHANGED <<bvars, last_heartbeat, voteHist, client, current_term, voted_for, log, commit_index, last_applied,
                   next_index, match_index, state, leader_id, kv_store,
                   blocked_peers, heartbeat, leaderHist, applied, elections, failures>>

\* lines 271-310: the RequestVote handler of node p, for candidate c
RequestVoteTerm(p, c, t) ==
    IF c \in blocked_peers[p] THEN current_term[p]
    ELSE IF t > current_term[p] THEN t ELSE current_term[p]

RequestVoteGrant(p, c, t) ==
    /\ c \notin blocked_peers[p]
    /\ t >= current_term[p]
    /\ LET vf == IF t > current_term[p] THEN None ELSE voted_for[p]
       IN vf = None \/ vf = c

RequestVote(c) ==
    /\ election[c].pc = "wait"
    /\ election[c].rpc # <<>>
    /\ election[c].rpc.type = "req"
    /\ LET p == PeerAt(c, election[c].peer)
           t == election[c].rpc.term
           blocked == c \in blocked_peers[p]
           higher == ~blocked /\ t > current_term[p]
           grant == RequestVoteGrant(p, c, t)
       IN /\ current_term' = [current_term EXCEPT ![p] = RequestVoteTerm(p, c, t)]
          /\ state' = [state EXCEPT ![p] = IF higher THEN FOLLOWER ELSE @]
          /\ voted_for' = [voted_for EXCEPT ![p] =
                              IF grant THEN c ELSE IF higher THEN None ELSE @]
          /\ election' = [election EXCEPT ![c].rpc =
                              [type |-> "resp",
                               term |-> RequestVoteTerm(p, c, t),
                               vote_granted |-> grant]]
          /\ voteHist' = IF grant THEN voteHist \cup {<<p, c, t>>} ELSE voteHist
    /\ UNCHANGED <<bvars, last_heartbeat, client, log, commit_index, last_applied, next_index, match_index,
                   leader_id, kv_store, blocked_peers, heartbeat, leaderHist,
                   applied, elections, failures>>

\* lines 119-127: the reply is merged under the lock
ElectionReply(n) ==
    /\ election[n].pc = "wait"
    /\ election[n].rpc # <<>>
    /\ election[n].rpc.type = "resp"
    /\ LET resp == election[n].rpc
           higher == resp.term > current_term[n]
       IN /\ current_term' = [current_term EXCEPT ![n] =
                                 IF higher THEN resp.term ELSE @]
          /\ state' = [state EXCEPT ![n] = IF higher THEN FOLLOWER ELSE @]
          /\ voted_for' = [voted_for EXCEPT ![n] = IF higher THEN None ELSE @]
          /\ election' = [election EXCEPT ![n] =
                NextPeer([@ EXCEPT !.votes =
                    IF ~higher /\ resp.vote_granted THEN @ + 1 ELSE @])]
    /\ UNCHANGED <<bvars, last_heartbeat, voteHist, client, log, commit_index, last_applied, next_index, match_index,
                   leader_id, kv_store, blocked_peers, heartbeat, leaderHist,
                   applied, elections, failures>>

\* lines 129-130: the call raised (timeout, refused); the request or the
\* reply is lost and the loop goes on
ElectionRpcFail(n) ==
    /\ election[n].pc = "wait"
    /\ failures' = failures + 1
    /\ election' = [election EXCEPT ![n] = NextPeer(@)]
    /\ UNCHANGED <<bvars, last_heartbeat, voteHist, client, current_term, voted_for, log, commit_index, last_applied,
                   next_index, match_index, state, leader_id, kv_store,
                   blocked_peers, heartbeat, leaderHist, applied, elections>>

\* lines 138-152: become_leader
become_leader(n) ==
    /\ state' = [state EXCEPT ![n] = LEADER]
    /\ leader_id' = [leader_id EXCEPT ![n] = n]
    /\ next_index' = [next_index EXCEPT ![n] =
                         [p \in Node |-> IF p = n THEN @[p] ELSE Len(log[n])]]
    /\ match_index' = [match_index EXCEPT ![n] =
                          [p \in Node |-> IF p = n THEN @[p] ELSE -1]]
    /\ heartbeat' = [heartbeat EXCEPT ![n] =
                        IF @.pc = "off"
                        THEN [pc |-> "check", peer |-> 0, rpc |-> <<>>]
                        ELSE @]
    /\ leaderHist' = leaderHist \cup {<<n, current_term[n]>>}

\* a tally that asks for the vote of every node
ElectionWinsUnanimous(n) == election[n].votes = NumPeers + 1

\* lines 132-136: the tally after the loop
ElectionWins(n) == Majority(election[n].votes)

ElectionTally(n) ==
    /\ election[n].pc = "tally"
    /\ election' = [election EXCEPT ![n] = IdleElection]
    /\ IF ElectionWins(n)
       THEN become_leader(n)
       ELSE UNCHANGED <<state, leader_id, next_index, match_index, heartbeat,
                        leaderHist>>
    /\ UNCHANGED <<bvars, last_heartbeat, voteHist, client, current_term, voted_for, log, commit_index, last_applied,
                   kv_store, blocked_peers, applied, elections, failures>>

(***************************************************************************)
(* heartbeat_loop / send_append_entries                                    *)
(***************************************************************************)
\* line 158: the loop test, read without the lock; the thread ends when the
\* node is no longer Leader
HeartbeatCheck(n) ==
    /\ heartbeat[n].pc = "check"
    /\ heartbeat' = [heartbeat EXCEPT ![n] =
                        IF state[n] = LEADER
                        THEN [pc |-> "send", peer |-> 1, rpc |-> <<>>]
                        ELSE IdleHeartbeat]
    /\ UNCHANGED <<bvars, last_heartbeat, voteHist, client, current_term, voted_for, log, commit_index, last_applied,
                   next_index, match_index, state, leader_id, kv_store,
                   blocked_peers, election, leaderHist, applied, elections, failures>>

\* after the last peer the loop sleeps and tests again
NextBeat(hb) ==
    IF hb.peer < NumPeers
    THEN [hb EXCEPT !.pc = "send", !.peer = @ + 1, !.rpc = <<>>]
    ELSE [hb EXCEPT !.pc = "check", !.peer = 0, !.rpc = <<>>]

\* send_append_entries of a Leader that sends heartbeats without entries
AppendEntriesHeartbeatOnly(n, p) ==
    LET next_idx == next_index[n][p]
        prev_idx == next_idx - 1
    IN [type |-> "req",
        term |-> current_term[n],
        prev_log_index |-> prev_idx,
        prev_log_term |-> IF prev_idx >= 0 THEN At(log[n], prev_idx).term ELSE 0,
        entries |-> <<>>,
        leader_commit |-> commit_index[n]]

\* lines 181-194: the request send_append_entries builds for peer p; the
\* read of log[prev_idx] raises when the log has been cut below prev_idx
AppendEntriesRaises(n, p) == next_index[n][p] - 1 >= Len(log[n])

AppendEntriesRequest(n, p) ==
    LET next_idx == next_index[n][p]
        prev_idx == next_idx - 1
    IN [type |-> "req",
        term |-> current_term[n],
        prev_log_index |-> prev_idx,
        prev_log_term |-> IF prev_idx >= 0 THEN At(log[n], prev_idx).term ELSE 0,
        entries |-> Suffix(log[n], next_idx),
        leader_commit |-> commit_index[n]]

\* lines 162-165 and 177-196
HeartbeatSend(n) ==
    /\ heartbeat[n].pc = "send"
    /\ LET p == PeerAt(n, heartbeat[n].peer)
       IN heartbeat' = [heartbeat EXCEPT ![n] =
             IF p \in blocked_peers[n] \/ AppendEntriesRaises(n, p)
             THEN NextBeat(@)
             ELSE [@ EXCEPT !.pc = "wait", !.rpc = AppendEntriesRequest(n, p)]]
    /\ UNCHANGED <<bvars, last_heartbeat, voteHist, client, current_term, voted_for, log, commit_index, last_applied,
                   next_index, match_index, state, leader_id, kv_store,
                   blocked_peers, election, leaderHist, applied, elections, failures>>

\* lines 245-254: the append / overwrite loop
RECURSIVE AppendLoop(_, _, _)
AppendLoop(lg, idx, entries) ==
    IF entries = <<>> THEN lg
    ELSE LET entry == Head(entries)
             lg2 == IF idx < Len(lg)
                    THEN IF At(lg, idx).term # entry.term
                         THEN Append(Prefix(lg, idx), entry)
                         ELSE lg
                    ELSE Append(lg, entry)
         IN AppendLoop(lg2, idx + 1, Tail(entries))

\* an AppendEntries handler without the partition check
AppendEntriesRejectedByTerm(p, s, rq) == rq.term < current_term[p]

\* lines 213-225: rejected without any change
AppendEntriesRejected(p, s, rq) ==
    \/ s \in blocked_peers[p]
    \/ rq.term < current_term[p]

\* lines 233-243: the consistency check on prev_log_index / prev_log_term
PrevLogMatches(p, rq) ==
    \/ rq.prev_log_index < 0
    \/ /\ rq.prev_log_index < Len(log[p])
       /\ At(log[p], rq.prev_log_index).term = rq.prev_log_term

\* lines 256-260: the commit index after a successful AppendEntries
FollowerCommit(p, rq, lg) ==
    IF rq.leader_commit > commit_index[p]
    THEN Min(rq.leader_commit, Len(lg) - 1)
    ELSE commit_index[p]

\* lines 209-265: the AppendEntries handler of node p, for the request in
\* flight from the heartbeat thread of s
AppendEntries(s) ==
    /\ heartbeat[s].pc = "wait"
    /\ heartbeat[s].rpc # <<>>
    /\ heartbeat[s].rpc.type = "req"
    /\ LET p == PeerAt(s, heartbeat[s].peer)
           rq == heartbeat[s].rpc
           resp(t, ok) == [type |-> "resp", term |-> t, success |-> ok,
                           prev_idx |-> rq.prev_log_index,
                           nentries |-> Len(rq.entries)]
       IN IF AppendEntriesRejected(p, s, rq)
          THEN /\ heartbeat' = [heartbeat EXCEPT ![s].rpc = resp(current_term[p], FALSE)]
               /\ UNCHANGED <<current_term, state, leader_id, log, commit_index,
                              kv_store, last_applied, applied, last_heartbeat>>
          ELSE /\ state' = [state EXCEPT ![p] = FOLLOWER]
               /\ leader_id' = [leader_id EXCEPT ![p] = s]
               /\ current_term' = [current_term EXCEPT ![p] = rq.term]
               /\ last_heartbeat' = [last_heartbeat EXCEPT ![p] = Fresh]
               /\ IF ~PrevLogMatches(p, rq)
                  THEN /\ heartbeat' = [heartbeat EXCEPT ![s].rpc = resp(rq.term, FALSE)]
                       /\ UNCHANGED <<log, commit_index, kv_store, last_applied,
                                      applied>>
                  ELSE LET lg == AppendLoop(log[p], rq.prev_log_index + 1, rq.entries)
                           ci == FollowerCommit(p, rq, lg)
                       IN /\ log' = [log EXCEPT ![p] = lg]
                          /\ commit_index' = [commit_index EXCEPT ![p] = ci]
                          /\ apply_committed_logs(p, lg, ci, rq.term)
                          /\ heartbeat' = [heartbeat EXCEPT ![s].rpc = resp(rq.term, TRUE)]
    /\ UNCHANGED <<bvars, client, voted_for, next_index, match_index,
                   blocked_peers, election, leaderHist, elections, failures,
                   voteHist>>

\* lines 198-204: the reply is merged under the lock
HeartbeatReply(n) ==
    /\ heartbeat[n].pc = "wait"
    /\ heartbeat[n].rpc # <<>>
    /\ heartbeat[n].rpc.type = "resp"
    /\ LET p == PeerAt(n, heartbeat[n].peer)
           resp == heartbeat[n].rpc
       IN IF resp.success
          THEN LET m == resp.prev_idx + resp.nentries
                   mi == [match_index[n] EXCEPT ![p] = m]
               IN /\ match_index' = [match_index EXCEPT ![n] = mi]
                  /\ next_index' = [next_index EXCEPT ![n][p] = m + 1]
                  /\ update_commit_index(n, mi)
          ELSE /\ next_index' = [next_index EXCEPT ![n][p] = Max(0, @ - 1)]
               /\ UNCHANGED <<match_index, commit_index, kv_store, last_applied,
                              applied>>
    /\ heartbeat' = [heartbeat EXCEPT ![n] = NextBeat(@)]
    /\ UNCHANGED <<bvars, last_heartbeat, voteHist, client, current_term, voted_for, log, state, leader_id,
                   blocked_peers, election, leaderHist, elections, failures>>

\* lines 206-207: the call raised; the request or the reply is lost
HeartbeatRpcFail(n) ==
    /\ heartbeat[n].pc = "wait"
    /\ failures' = failures + 1
    /\ heartbeat' = [heartbeat EXCEPT ![n] = NextBeat(@)]
    /\ UNCHANGED <<bvars, last_heartbeat, voteHist, client, current_term, voted_for, log, commit_index, last_applied,
                   next_index, match_index, state, leader_id, kv_store,
                   blocked_peers, election, leaderHist, applied, elections>>

(***************************************************************************)
(* Client API and fault injection                                          *)
(***************************************************************************)
\* ClientSet that does not test the role of the node
ClientSetAnyRole(n, k, v) ==
    /\ log' = [log EXCEPT ![n] = Append(@, Entry(current_term[n], k, v))]
    /\ client' = [client EXCEPT !.reply = Reply("set", "ok", TRUE, "", Len(log[n]))]
    /\ UNCHANGED <<bvars, last_heartbeat, voteHist, current_term, voted_for, commit_index, last_applied,
                   next_index, match_index, state, leader_id, kv_store,
                   blocked_peers, election, heartbeat, leaderHist, applied,
                   elections, failures>>

\* lines 356-375
ClientSet(n, k, v) ==
    /\ log' = [log EXCEPT ![n] =
                  IF state[n] = LEADER
                  THEN Append(@, Entry(current_term[n], k, v))
                  ELSE @]
    /\ client' = [client EXCEPT !.reply =
                     IF state[n] = LEADER
                     THEN Reply("set", "ok", TRUE, "", Len(log[n]))
                     ELSE Reply("set", "ok", FALSE, "", -1)]
    /\ UNCHANGED <<bvars, last_heartbeat, voteHist, current_term, voted_for, commit_index, last_applied,
                   next_index, match_index, state, leader_id, kv_store,
                   blocked_peers, election, heartbeat, leaderHist, applied, elections, failures>>

\* lines 381-385: ClientGet tests the role, without the lock
ClientGet(n, k) ==
    /\ client.pc = "idle"
    /\ client' = IF state[n] # LEADER
                 THEN [client EXCEPT !.reply =
                          Reply("get", "not_leader", FALSE, "", -1)]
                 ELSE [client EXCEPT !.pc = "read", !.node = n, !.key = k]
    /\ UNCHANGED <<bvars, last_heartbeat, voteHist, current_term, voted_for, log, commit_index, last_applied,
                   next_index, match_index, state, leader_id, kv_store,
                   blocked_peers, election, heartbeat, leaderHist, applied,
                   elections, failures>>

\* ClientGet that answers from the log instead of the kv_store
ClientGetFromLog(n, k) ==
    LET S == {i \in 1..Len(log[n]) : log[n][i].key = k}
    IN IF S # {}
       THEN Reply("get", "ok", TRUE, log[n][MaxOf(S)].value, -1)
       ELSE Reply("get", "ok", FALSE, "", -1)

\* lines 386-390: the lookup in kv_store
ClientGetResponse(n, k) ==
    IF kv_store[n][k] # ""
    THEN Reply("get", "ok", TRUE, kv_store[n][k], -1)
    ELSE Reply("get", "ok", FALSE, "", -1)

ClientGetRead ==
    /\ client.pc = "read"
    /\ client' = [IdleClient EXCEPT
                      !.reply = ClientGetResponse(client.node, client.key)]
    /\ UNCHANGED <<bvars, last_heartbeat, voteHist, current_term, voted_for, log, commit_index, last_applied,
                   next_index, match_index, state, leader_id, kv_store,
                   blocked_peers, election, heartbeat, leaderHist, applied,
                   elections, failures>>

\* lines 61-65
SetPartition(n, blocked) ==
    /\ blocked_peers' = [blocked_peers EXCEPT ![n] = blocked]
    /\ UNCHANGED <<bvars, last_heartbeat, voteHist, client, current_term, voted_for, log, commit_index, last_applied,
                   next_index, match_index, state, leader_id, kv_store,
                   election, heartbeat, leaderHist, applied, elections, failures>>

\* lines 85-86: the test of the election timer
TimedOut(n) == last_heartbeat[n] = Expired

\* environment: the timeout passes without the timer of n being set again
TimerExpires(n) ==
    /\ last_heartbeat[n] = Fresh
    /\ last_heartbeat' = [last_heartbeat EXCEPT ![n] = Expired]
    /\ UNCHANGED <<bvars, client, current_term, voted_for, log, commit_index,
                   last_applied, next_index, match_index, state, leader_id,
                   kv_store, blocked_peers, election, heartbeat, leaderHist,
                   applied, elections, failures, voteHist>>

(***************************************************************************)
(* BOrder: PBFTNode                                                        *)
(***************************************************************************)
BNumNodes == 5
MaxSubmit == 2
MaxToggle == 2
MaxPreempt == 1
MaxPreemptFaulty == 0

BNode == 1..BNumNodes
Primary == 1
NumFaulty == 3
MaxWrongHash == 3
\* the nodes the operator makes malicious
Faulty == 1..NumFaulty
\* the Replicas the operator sets to wrong_hash
WrongHashReplicas == (BNode \ {Primary}) \cap (1..(MaxWrongHash + 1))
Data == {"a", "b"}

\* __init__, lines 33-34, and the quorum 2f+1 of lines 223 and 281
total_nodes == (BNumNodes - 1) + 1
f == (total_nodes - 1) \div 3
Quorum == 2 * f + 1

BNumPeers == BNumNodes - 1

\* _compute_hash: SHA-256 over data, previous hash and height, taken as
\* collision free: the digest is the triple itself
ZeroHash == <<"0">>
compute_hash(data, prev_hash, height) == <<"sha256", data, prev_hash, height>>
\* line 338: "malicious_hash_" + block_hash[:40], never a SHA-256 digest
CorruptHash(h) == <<"malicious_hash_", h>>

Block(height, prev, hash, data, view, seq) ==
    [block_height |-> height, previous_hash |-> prev, block_hash |-> hash,
     data |-> data, view_number |-> view, sequence_number |-> seq]

\* pending_block = None
NoBlock == Block(-1, ZeroHash, ZeroHash, "", 0, 0)

\* _create_genesis_block
Genesis ==
    Block(0, ZeroHash, compute_hash("genesis", ZeroHash, 0), "Genesis Block", 0, 0)

\* a broadcast worker: kind, the node that runs it, the block it was started
\* with, the hash its message carries, and the position in peers.items()
\* (0: message not built yet; BNumPeers + 1: the call of its own handler)
Thread(kind, n, block, hash, pos) ==
    [kind |-> kind, node |-> n, block |-> block, hash |-> hash, pos |-> pos]

NoThread == Thread("none", 0, NoBlock, ZeroHash, 0)

\* the state after construction; the environment: the nodes that are not
\* reachable, and how many times the scheduler may leave a worker that has
\* not finished for another one
BInitNodes(unreachable, preemptions) ==
    /\ down = unreachable
    /\ preempt_left = preemptions
    /\ running = NoThread
    /\ view_number = [n \in BNode |-> 0]
    /\ sequence_number = [n \in BNode |-> 0]
    /\ blockchain = [n \in BNode |-> <<Genesis>>]
    /\ pending_block = [n \in BNode |-> NoBlock]
    /\ pre_prepare_log = [n \in BNode |-> {}]
    /\ prepare_log = [n \in BNode |-> {}]
    /\ commit_log = [n \in BNode |-> {}]
    /\ is_malicious = [n \in BNode |-> FALSE]
    /\ malicious_type = [n \in BNode |-> "none"]
    /\ threads = {}
    /\ proposed = <<>>
    /\ toggles = 0
    /\ ever_malicious = {}

\* no sets of nodes have been drawn
NoSets == [a |-> {}, b |-> {}, byzantine |-> {}, shared |-> {}, done |-> FALSE]

BInit(unreachable, preemptions) ==
    /\ BInitNodes(unreachable, preemptions)
    /\ quorum_sets = NoSets

is_primary(n) == n = Primary

_get_last_block(n) == blockchain[n][Len(blockchain[n])]

\* _verify_block without the check of the block hash
verify_links_only(n, block) ==
    LET last_block == _get_last_block(n)
    IN /\ block.block_height = last_block.block_height + 1
       /\ block.previous_hash = last_block.block_hash

\* lines 87-104
_verify_block(n, block) ==
    LET last_block == _get_last_block(n)
    IN /\ block.block_height = last_block.block_height + 1
       /\ block.previous_hash = last_block.block_hash
       /\ block.block_hash =
              compute_hash(block.data, block.previous_hash, block.block_height)

Silent(n) == is_malicious[n] /\ malicious_type[n] = "silent"
WrongHash(n) == is_malicious[n] /\ malicious_type[n] = "wrong_hash"

PrepareThread(n, block) == Thread("prepare", n, block, ZeroHash, 0)
CommitThread(n, block) ==
    Thread("commit", n, block, block.block_hash, 1)

\* the worker after one more peer; NoThread when it has ended
Advance(th) ==
    IF th.pos = BNumPeers + 1 \/ (th.kind = "pre_prepare" /\ th.pos = BNumPeers)
    THEN NoThread
    ELSE [th EXCEPT !.pos = @ + 1]

\* _broadcast_pre_prepare ends by starting the Primary's own
\* _broadcast_prepare (line 381)
Spawned(th) ==
    IF th.kind = "pre_prepare" /\ Advance(th) = NoThread
    THEN {PrepareThread(th.node, th.block)}
    ELSE {}

\* the workers other than th, th one peer further, and what th started
Rest(th) == ((threads \ {th}) \cup {Advance(th)} \cup Spawned(th)) \ {NoThread}

\* the node whose handler the next call of the worker runs: the peer at its
\* position, at the end the node itself
Callee(th) == IF th.pos <= BNumPeers THEN PeerAt(th.node, th.pos) ELSE th.node

\* the worker waits in a call to a peer that is not reachable
Blocked(th) == th.pos \in 1..BNumPeers /\ Callee(th) \in down

\* the worker has made a step already
Started(th) == th.pos > (IF th.kind = "prepare" THEN 0 ELSE 1)

\* the order in which the scheduler starts the workers that wait: Pre-prepare
\* broadcasts, then Prepare, then Commit; older blocks and lower nodes first
Rank(th) ==
    (CASE th.kind = "pre_prepare" -> 100
       [] th.kind = "prepare" -> 200
       [] OTHER -> 300) + 10 * th.block.sequence_number + th.node

FirstInLine(th) ==
    /\ ~Started(th)
    /\ \A u \in threads : ~Started(u) => Rank(th) <= Rank(u)

\* scheduling of worker th for one step: the worker that ran last goes on
\* until it ends; then the first waiting worker in line starts or a preempted
\* one resumes; leaving a worker that has not ended is a preemption
Schedule(th, after) ==
    /\ \/ th = running
       \/ /\ Started(th) \/ FirstInLine(th)
          /\ running = NoThread \/ preempt_left > 0
    /\ running' = after
    /\ preempt_left' = IF running \notin {NoThread, th}
                       THEN preempt_left - 1
                       ELSE preempt_left

\* the number of senders recorded for (seq, hash)
Count(lg, seq, hash) == Cardinality({x \in lg : x[1] = seq /\ x[2] = hash})

(***************************************************************************)
(* The handlers, as the state of node p after the call; rest: the workers  *)
(* that go on, to which the handler adds the one it starts                 *)
(***************************************************************************)
\* a Pre-prepare handler that takes any sequence number
PrePrepareAnySequence(p, view, seq, block) ==
    /\ ~Silent(p)
    /\ view = view_number[p]
    /\ _verify_block(p, block)

\* a Pre-prepare handler that does not verify the block
PrePrepareUnverified(p, view, seq, block) ==
    /\ ~Silent(p)
    /\ view = view_number[p]
    /\ seq = sequence_number[p] + 1

\* lines 115-148: the Pre-prepare is accepted
PrePrepareAccepted(p, view, seq, block) ==
    /\ ~Silent(p)
    /\ view = view_number[p]
    /\ seq = sequence_number[p] + 1
    /\ _verify_block(p, block)

\* lines 110-164
PrePrepare(p, view, seq, block, rest) ==
    IF PrePrepareAccepted(p, view, seq, block)
    THEN /\ pre_prepare_log' = [pre_prepare_log EXCEPT ![p] = @ \cup {<<seq, block>>}]
         /\ pending_block' = [pending_block EXCEPT ![p] = block]
         /\ sequence_number' = [sequence_number EXCEPT ![p] = seq]
         /\ threads' = rest \cup {PrepareThread(p, block)}
    ELSE /\ threads' = rest
         /\ UNCHANGED <<pre_prepare_log, pending_block, sequence_number>>

\* lines 206-211 and 265-269: view and sequence of the message are current
Current(p, view, seq) == view = view_number[p] /\ seq = sequence_number[p]

\* a quorum test that does not compare the hash of the messages with the
\* hash of the pending block
QuorumOnAnyHash(p, lg, seq, hash) ==
    /\ Count(lg, seq, hash) >= Quorum
    /\ pending_block[p] # NoBlock

\* lines 223-225 and 281-283: a quorum on the hash of the pending block
QuorumOnPending(p, lg, seq, hash) ==
    /\ Count(lg, seq, hash) >= Quorum
    /\ pending_block[p] # NoBlock
    /\ pending_block[p].block_hash = hash

\* lines 200-228
Prepare(p, view, seq, hash, sender, rest) ==
    IF Current(p, view, seq)
    THEN LET lg == prepare_log[p] \cup {<<seq, hash, sender>>}
         IN /\ prepare_log' = [prepare_log EXCEPT ![p] = lg]
            /\ threads' = IF QuorumOnPending(p, lg, seq, hash)
                          THEN rest \cup {CommitThread(p, pending_block[p])}
                          ELSE rest
    ELSE /\ threads' = rest
         /\ UNCHANGED prepare_log

\* lines 288-298
AlreadyExecuted(p, block) ==
    \E i \in 1..Len(blockchain[p]) : blockchain[p][i].block_hash = block.block_hash

_execute_block(p, block) ==
    IF AlreadyExecuted(p, block)
    THEN UNCHANGED <<blockchain, pending_block>>
    ELSE /\ blockchain' = [blockchain EXCEPT ![p] = Append(@, block)]
         /\ pending_block' = [pending_block EXCEPT ![p] = NoBlock]

\* a Commit handler that executes the pending block on the first Commit that
\* carries its hash, without counting the senders
CommitUncounted(p, view, seq, hash, sender) ==
    IF Current(p, view, seq)
    THEN LET lg == commit_log[p] \cup {<<seq, hash, sender>>}
         IN /\ commit_log' = [commit_log EXCEPT ![p] = lg]
            /\ IF pending_block[p] # NoBlock /\ pending_block[p].block_hash = hash
               THEN _execute_block(p, pending_block[p])
               ELSE UNCHANGED <<blockchain, pending_block>>
    ELSE UNCHANGED <<commit_log, blockchain, pending_block>>

\* lines 258-286
Commit(p, view, seq, hash, sender) ==
    IF Current(p, view, seq)
    THEN LET lg == commit_log[p] \cup {<<seq, hash, sender>>}
         IN /\ commit_log' = [commit_log EXCEPT ![p] = lg]
            /\ IF QuorumOnPending(p, lg, seq, hash)
               THEN _execute_block(p, pending_block[p])
               ELSE UNCHANGED <<blockchain, pending_block>>
    ELSE UNCHANGED <<commit_log, blockchain, pending_block>>

(***************************************************************************)
(* Client API and the broadcast workers                                    *)
(***************************************************************************)
\* lines 317-338: the block the Primary builds
NewBlock(n, data) ==
    LET last_block == _get_last_block(n)
        height == last_block.block_height + 1
        hash == compute_hash(data, last_block.block_hash, height)
    IN Block(height, last_block.block_hash,
             IF WrongHash(n) THEN CorruptHash(hash) ELSE hash,
             data, view_number[n], sequence_number[n] + 1)

\* history: a proposed block and the nodes that were silent at that moment
Proposal(block) == [block |-> block, silent |-> {r \in BNode : Silent(r)}]

\* line 347: the worker ClientSubmitBlock starts
PrePrepareThread(n, block) ==
    Thread("pre_prepare", n, block, block.block_hash, 1)

\* ClientSubmitBlock of a Primary that numbers a block by its height instead
\* of counting the blocks it has proposed
ClientSubmitBlockByHeight(n, data) ==
    LET block == [NewBlock(n, data) EXCEPT
                      !.sequence_number = _get_last_block(n).block_height + 1]
    IN /\ Len(proposed) < MaxSubmit
       /\ IF is_primary(n)
          THEN /\ sequence_number' =
                      [sequence_number EXCEPT ![n] = block.sequence_number]
               /\ pending_block' = [pending_block EXCEPT ![n] = block]
               /\ threads' = threads \cup {PrePrepareThread(n, block)}
               /\ proposed' = Append(proposed, Proposal(block))
          ELSE UNCHANGED <<sequence_number, pending_block, threads, proposed>>
       /\ UNCHANGED <<rvars, quorum_sets, view_number, blockchain, pre_prepare_log,
                      prepare_log, commit_log, is_malicious, malicious_type,
                      down, running, preempt_left, toggles, ever_malicious>>

\* lines 304-353
ClientSubmitBlock(n, data) ==
    /\ Len(proposed) < MaxSubmit
    /\ IF is_primary(n)
       THEN /\ sequence_number' = [sequence_number EXCEPT ![n] = @ + 1]
            /\ pending_block' = [pending_block EXCEPT ![n] = NewBlock(n, data)]
            /\ threads' = threads \cup {PrePrepareThread(n, NewBlock(n, data))}
            /\ proposed' = Append(proposed, Proposal(NewBlock(n, data)))
       ELSE UNCHANGED <<sequence_number, pending_block, threads, proposed>>
    /\ UNCHANGED <<rvars, quorum_sets, view_number, blockchain, pre_prepare_log, prepare_log,
                   commit_log, is_malicious, malicious_type, down, running,
                   preempt_left, toggles, ever_malicious>>

\* lines 355-378: one call of stub.PrePrepare
BroadcastPrePrepare(th) ==
    /\ th.kind = "pre_prepare"
    /\ ~Blocked(th)
    /\ Schedule(th, Advance(th))
    /\ PrePrepare(PeerAt(th.node, th.pos), view_number[th.node],
                  th.block.sequence_number, th.block, Rest(th))
    /\ UNCHANGED <<rvars, quorum_sets, view_number, blockchain, prepare_log, commit_log,
                   is_malicious, malicious_type, down, proposed, toggles, ever_malicious>>

\* lines 168-182: after the delay the Prepare message is built; a wrong_hash
\* node puts the all-zero hash in it
BuiltPrepare(th) ==
    [th EXCEPT !.pos = 1,
               !.hash = IF WrongHash(th.node) THEN ZeroHash
                        ELSE th.block.block_hash]

BuildPrepare(th) ==
    /\ th.kind = "prepare"
    /\ th.pos = 0
    /\ Schedule(th, BuiltPrepare(th))
    /\ threads' = (threads \ {th}) \cup {BuiltPrepare(th)}
    /\ UNCHANGED <<rvars, quorum_sets, view_number, sequence_number, blockchain,
                   pending_block, pre_prepare_log, prepare_log, commit_log,
                   is_malicious, malicious_type, down, proposed, toggles, ever_malicious>>

\* lines 185-194: one call of stub.Prepare, or the final self.Prepare
BroadcastPrepare(th) ==
    /\ th.kind = "prepare"
    /\ th.pos >= 1
    /\ ~Blocked(th)
    /\ Schedule(th, Advance(th))
    /\ Prepare(Callee(th), view_number[th.node], th.block.sequence_number,
               th.hash, th.node, Rest(th))
    /\ UNCHANGED <<rvars, quorum_sets, view_number, sequence_number, blockchain,
                   pending_block, pre_prepare_log, commit_log, is_malicious,
                   malicious_type, down, proposed, toggles, ever_malicious>>

\* lines 243-252: one call of stub.Commit, or the final self.Commit
BroadcastCommit(th) ==
    /\ th.kind = "commit"
    /\ ~Blocked(th)
    /\ Schedule(th, Advance(th))
    /\ Commit(Callee(th), view_number[th.node], th.block.sequence_number,
              th.hash, th.node)
    /\ threads' = Rest(th)
    /\ UNCHANGED <<rvars, quorum_sets, view_number, sequence_number, pre_prepare_log,
                   prepare_log, is_malicious, malicious_type, down, proposed,
                   toggles, ever_malicious>>

\* the except branches of lines 190, 248 and 377: the call to a peer that is
\* not reachable raises and the loop goes on
BroadcastFail(th) ==
    /\ Blocked(th)
    /\ Schedule(th, Advance(th))
    /\ threads' = Rest(th)
    /\ UNCHANGED <<rvars, quorum_sets, view_number, sequence_number, blockchain,
                   pending_block, pre_prepare_log, prepare_log, commit_log,
                   is_malicious, malicious_type, down, proposed, toggles, ever_malicious>>

\* lines 406-429
SetMaliciousBehavior(n, enable, type) ==
    /\ toggles' = toggles + 1
    /\ ever_malicious' = IF enable THEN ever_malicious \cup {n} ELSE ever_malicious
    /\ is_malicious' = [is_malicious EXCEPT ![n] = enable]
    /\ malicious_type' = [malicious_type EXCEPT ![n] = IF enable THEN type ELSE "none"]
    /\ UNCHANGED <<rvars, quorum_sets, view_number, sequence_number, blockchain,
                   pending_block, pre_prepare_log, prepare_log, commit_log,
                   threads, down, running, preempt_left, proposed>>

\* environment: the nodes that were not reachable are reachable again
Recover ==
    /\ down # {}
    /\ down' = {}
    /\ UNCHANGED <<rvars, quorum_sets, view_number, sequence_number, blockchain,
                   pending_block, pre_prepare_log, prepare_log, commit_log,
                   is_malicious, malicious_type, threads, running,
                   preempt_left, proposed, toggles, ever_malicious>>

\* the steps of the broadcast workers
BWorkers ==
    \E th \in threads :
        \/ BroadcastPrePrepare(th)
        \/ BuildPrepare(th)
        \/ BroadcastPrepare(th)
        \/ BroadcastCommit(th)

\* the client
BClient == \E n \in BNode, d \in Data : ClientSubmitBlock(n, d)

\* the operator (pbft_client.py): commands are given while no broadcast runs
BOperator ==
    /\ threads = {}
    /\ toggles < MaxToggle
    /\ \E n \in Faulty, e \in BOOLEAN, t \in {"silent", "wrong_hash"} :
           SetMaliciousBehavior(n, e, t)

\* every node honest and reachable
BNext == BClient \/ BWorkers

\* every node honest, some not reachable for a while
BDNext ==
    \/ BClient
    \/ BWorkers
    \/ \E th \in threads : BroadcastFail(th)
    \/ Recover

\* nodes made malicious and restored by the operator
BMNext == BClient \/ BWorkers \/ BOperator

\* the operator sets Replicas to wrong_hash while no broadcast runs
\* (test_wrong_hash_attack of test_pbft.py, with up to MaxWrongHash commands)
BWOperator ==
    /\ threads = {}
    /\ toggles < MaxWrongHash
    /\ \E n \in WrongHashReplicas : SetMaliciousBehavior(n, TRUE, "wrong_hash")

BWNext == BClient \/ BWorkers \/ BWOperator

(***************************************************************************)
(* Specifications of RLog                                                  *)
(***************************************************************************)
\* the bounds of a run: terms, elections, log length, failed calls
MayTimeout(n, terms, starts) == current_term[n] < terms /\ elections < starts
MaySet(n, len) == Len(log[n]) < len
MayFail == failures < MaxFail

\* the steps of the election and heartbeat threads of n and of the handlers
\* they call
RThreads(n) ==
    \/ ElectionSend(n)
    \/ RequestVote(n)
    \/ ElectionReply(n)
    \/ ElectionTally(n)
    \/ HeartbeatCheck(n)
    \/ HeartbeatSend(n)
    \/ AppendEntries(n)
    \/ HeartbeatReply(n)

RCore(n) ==
    \/ MayTimeout(n, MaxTerm, MaxElections) /\ ElectionTimeout(n)
    \/ RThreads(n)
    \/ \E k \in Keys, v \in Values : MaySet(n, MaxLog) /\ ClientSet(n, k, v)

\* every peer call returns
RNext == \E n \in Node : RCore(n)

\* peer calls may raise, at most MaxFail times
RFNext ==
    \E n \in Node :
        \/ RCore(n)
        \/ MayFail /\ ElectionRpcFail(n)
        \/ MayFail /\ HeartbeatRpcFail(n)

\* every node of RLog and of BOrder as constructed and reachable
Init == RInit /\ BInit({}, MaxPreempt)

SpecR == Init /\ [][RNext]_vars
SpecRF == Init /\ [][RFNext]_vars

\* RLog with a client that writes and reads: logs of up to MaxLogGet entries,
\* MaxElectionsGet elections
RGNext ==
    \/ \E n \in Node :
        \/ MayTimeout(n, MaxTerm, MaxElectionsGet) /\ ElectionTimeout(n)
        \/ RThreads(n)
        \/ \E k \in Keys, v \in Values : MaySet(n, MaxLogGet) /\ ClientSet(n, k, v)
        \/ \E k \in Keys : ClientGet(n, k)
    \/ ClientGetRead

\* RLog with an operator who cuts a Leader off from every peer, and a client;
\* the second election starts after the Leader has been cut off
RPNext ==
    \/ \E n \in Node :
        \/ /\ MayTimeout(n, MaxTerm, MaxElections)
           /\ elections = 0 \/ \E m \in Node : blocked_peers[m] # {}
           /\ ElectionTimeout(n)
        \/ RThreads(n)
        \/ \E k \in Keys, v \in Values : MaySet(n, MaxLog) /\ ClientSet(n, k, v)
        \/ \E k \in Keys : ClientGet(n, k)
        \/ /\ state[n] = LEADER
           /\ \A m \in Node : blocked_peers[m] = {}
           /\ SetPartition(n, Node \ {n})
    \/ ClientGetRead

SpecRP == Init /\ [][RPNext]_vars

SpecRG == Init /\ [][RGNext]_vars

\* RLog with a client, every thread of a running node going on: a thread
\* that can take a step takes it in the end
SpecRL ==
    /\ Init
    /\ [][RGNext]_vars
    /\ \A n \in Node : WF_vars(RThreads(n))
    /\ WF_vars(ClientGetRead)

\* RLog with the election timers: an election starts on a node whose timer
\* has expired.  In the other specifications any time may pass between two
\* steps, so that a timer may have expired whenever it is tested.
RTNext ==
    \E n \in Node :
        \/ /\ MayTimeout(n, MaxTerm, MaxElections)
           /\ TimedOut(n)
           /\ ElectionTimeout(n)
        \/ RThreads(n)
        \/ TimerExpires(n)

SpecRT == Init /\ [][RTNext]_vars

\* lines 84-87: the random timeouts keep the candidates apart: the timer of n
\* fires while no election attempt is under way
TimeoutAlone(n) ==
    /\ \A m \in Node : election[m].pc = "idle"
    /\ MayTimeout(n, MaxTerm, MaxElections)
    /\ TimedOut(n)
    /\ ElectionTimeout(n)

\* the operator cuts a Leader off from every peer, once
CutOff(n) ==
    /\ state[n] = LEADER
    /\ \A m \in Node : blocked_peers[m] = {}
    /\ SetPartition(n, Node \ {n})

\* RLog with election timers that fire one at a time and an operator who cuts
\* a Leader off; every thread of a running node goes on, a timer that is not
\* set again expires, and a node whose timer has expired starts an election
RENext ==
    \E n \in Node :
        \/ TimeoutAlone(n)
        \/ RThreads(n)
        \/ TimerExpires(n)
        \/ CutOff(n)

SpecRE ==
    /\ Init
    /\ [][RENext]_vars
    /\ \A n \in Node :
          WF_vars(RThreads(n)) /\ WF_vars(TimerExpires(n))
              /\ WF_vars(TimeoutAlone(n))

\* the order in which the election timers expire (lines 85-87: each timer is
\* random): node 1, then node 3, then node 1 again
Starter == <<1, 3, 1>>

\* no election attempt and no heartbeat round is under way
Quiet ==
    \A m \in Node :
        election[m].pc = "idle" /\ heartbeat[m].pc \in {"off", "check"}

\* RLog over three terms with logs of up to MaxLogLong entries: the timers
\* expire in the order of Starter, election attempts and heartbeat rounds do
\* not overlap, the client writes x = a to the Leader between them, and up
\* to MaxFailLong peer calls raise
RMNext ==
    \E n \in Node :
        \/ /\ Quiet
           /\ MayTimeout(n, MaxTermLong, Len(Starter))
           /\ n = Starter[elections + 1]
           /\ ElectionTimeout(n)
        \/ Quiet /\ HeartbeatCheck(n)
        \/ ElectionSend(n)
        \/ RequestVote(n)
        \/ ElectionReply(n)
        \/ ElectionTally(n)
        \/ HeartbeatSend(n)
        \/ AppendEntries(n)
        \/ HeartbeatReply(n)
        \/ failures < MaxFailLong /\ ElectionRpcFail(n)
        \/ failures < MaxFailLong /\ HeartbeatRpcFail(n)
        \/ \E k \in Keys, v \in {"a"} :
              /\ Quiet
              /\ state[n] = LEADER
              /\ MaySet(n, MaxLogLong)
              /\ ClientSet(n, k, v)

SpecRM == Init /\ [][RMNext]_vars

\* BOrder, every node honest and reachable, at most MaxPreempt preemptions
SpecBS == Init /\ [][BNext]_vars

\* BOrder, every node honest, nodes 4 and 5 not reachable at first
InitBD == RInit /\ BInit({4, 5}, MaxPreemptFaulty)

SpecBD == InitBD /\ [][BDNext]_vars

\* BOrder with malicious nodes; every broadcast worker that can run does
InitBL == RInit /\ BInit({}, MaxPreemptFaulty)

SpecBL == InitBL /\ [][BMNext]_vars /\ WF_vars(BWorkers)

\* BOrder with Replicas that send the all-zero hash in their Prepares
SpecBW == InitBL /\ [][BWNext]_vars

(***************************************************************************)
(* Claims                                                                  *)
(***************************************************************************)
\* C1 - Election safety: for every term t at most one node ever becomes
\* Leader with current_term = t.
ElectionSafety ==
    \A a \in leaderHist, b \in leaderHist : a[2] = b[2] => a[1] = b[1]

\* C2 - Log matching: if two logs hold an entry with the same term at the
\* same index, the logs are identical up to and including that index.
LogMatching ==
    \A a \in Node, b \in Node :
        \A i \in 0..(Min(Len(log[a]), Len(log[b])) - 1) :
            At(log[a], i).term = At(log[b], i).term =>
                \A j \in 0..i : At(log[a], j) = At(log[b], j)

\* C3 - Leader completeness: an entry committed at index i on some node, in
\* term t, is in the log of every Leader of a term greater than t, at index i.
LeaderCompleteness ==
    \A a \in Node, l \in Node :
        \A i \in 1..Len(applied[a]) :
            (state[l] = LEADER /\ current_term[l] > applied[a][i].t) =>
                (Len(log[l]) >= i /\ log[l][i] = applied[a][i].e)

\* C4 - State machine safety: two nodes that both applied index k applied
\* the same entries at every index up to k.
StateMachineSafety ==
    \A a \in Node, b \in Node :
        \A k \in 1..Min(Len(applied[a]), Len(applied[b])) :
            applied[a][k].e = applied[b][k].e

\* node n has appended a block with the hash of block
InChain(n, block) ==
    \E i \in 1..Len(blockchain[n]) :
        blockchain[n][i].block_hash = block.block_hash

Honest(n) == ~is_malicious[n]

\* C5 Agreement: two honest nodes that have each appended a block with the
\* same sequence_number have appended blocks with the same block_hash
Agreement ==
    \A a \in BNode, b \in BNode :
        \A i \in 1..Len(blockchain[a]), j \in 1..Len(blockchain[b]) :
            /\ Honest(a) /\ Honest(b)
            /\ blockchain[a][i].sequence_number = blockchain[b][j].sequence_number
            => blockchain[a][i].block_hash = blockchain[b][j].block_hash

\* two nodes hold a block of sequence number 1, another node holds one of
\* sequence number 2
AgreementWitness ==
    /\ \E a \in BNode, b \in BNode :
          /\ a # b
          /\ Len(blockchain[a]) >= 2 /\ Len(blockchain[b]) >= 2
          /\ blockchain[a][2].sequence_number = blockchain[b][2].sequence_number
    /\ \E c \in BNode :
          \E i \in 1..Len(blockchain[c]) : blockchain[c][i].sequence_number = 2

\* C6 Chain consistency: with every node honest, the chains of any two nodes
\* hold the same block, by hash and data, at every height present in both
ChainConsistency ==
    \A a \in BNode, b \in BNode :
        \A h \in 1..Min(Len(blockchain[a]), Len(blockchain[b])) :
            /\ blockchain[a][h].block_hash = blockchain[b][h].block_hash
            /\ blockchain[a][h].data = blockchain[b][h].data

\* C7 Chain integrity: in the chain of every honest node, every block after
\* genesis points to the hash of the block before it, has its index as
\* height, and carries the hash of its data, previous hash and height
ChainIntegrity ==
    \A n \in BNode : Honest(n) =>
        \A i \in 2..Len(blockchain[n]) :
            LET b == blockchain[n][i]
            IN /\ b.previous_hash = blockchain[n][i - 1].block_hash
               /\ b.block_height = i - 1
               /\ b.block_hash =
                      compute_hash(b.data, b.previous_hash, b.block_height)

\* a node has appended two blocks
ChainIntegrityWitness == \E n \in BNode : Len(blockchain[n]) >= 3

\* the nodes that are malicious now
Malicious == {r \in BNode : is_malicious[r]}

\* C8 Liveness: with a Primary that is honest and at most f Replicas that are
\* ever malicious, every block the Primary has accepted from a client is in
\* the end in the chain of every node that was honest throughout
Liveness ==
    \A i \in 1..MaxSubmit :
        [](Len(proposed) >= i
           => <>(\/ Primary \in ever_malicious
                 \/ Cardinality(ever_malicious) > f
                 \/ /\ Len(proposed) >= i
                    /\ \A n \in BNode \ ever_malicious :
                           InChain(n, proposed[i].block)))

\* C9 Beyond the threshold: a block submitted while two Replicas are silent,
\* and silent they stay, is appended by no node
BeyondThreshold ==
    \A i \in 1..Len(proposed) :
        /\ Cardinality(proposed[i].silent \ {Primary}) >= 2
        /\ \A r \in proposed[i].silent : Silent(r)
        => \A n \in BNode : ~InChain(n, proposed[i].block)

\* Replica r was silent while the first block was proposed, every other node
\* has appended that block, r is honest again and was so when the Primary
\* proposed the next block
Recovered(r) ==
    /\ Len(proposed) = 2
    /\ r \in proposed[1].silent
    /\ \A n \in BNode \ {r} : InChain(n, proposed[1].block)
    /\ proposed[2].silent = {}
    /\ proposed[2].block.block_height = 2
    /\ Malicious = {}

\* C10 Recovery: a Replica restored to honest after it was silent during a
\* committed block appends in the end the next block the Primary proposes
Recovery ==
    \A r \in Faulty \ {Primary} :
        [](Recovered(r)
           => <>(\/ Malicious # {}
                 \/ Len(proposed) = 2 /\ InChain(r, proposed[2].block)))

(***************************************************************************)
(* Claims on the client API and on the log of RLog                         *)
(***************************************************************************)
\* C11 - Acknowledgement after apply: when ClientSet replies success=true for
\* an entry, the Leader's last_applied is at least the index of that entry.
AckAfterApply ==
    [][\A n \in Node, k \in Keys, v \in Values :
          (ClientSet(n, k, v) /\ client'.reply.success)
              => last_applied'[n] >= client'.reply.index]_vars

\* the indexes of the entries with key k in a sequence of applied entries
WithKey(hist, k) == {i \in 1..Len(hist) : hist[i].e.key = k}

\* C12 - Linearizable reads: once some node has applied an entry for key k
\* (an entry is applied anywhere only after a Leader committed it), a
\* ClientGet(k) that a node answers in the Leader role returns found=true
\* and the value of an entry for k that is not older than that one.
LinearizableReads ==
    [][ClientGetRead =>
          \A m \in Node : WithKey(applied[m], client.key) # {} =>
              /\ client'.reply.success
              /\ \E m2 \in Node :
                    \E j \in WithKey(applied[m2], client.key) :
                        /\ j >= MaxOf(WithKey(applied[m], client.key))
                        /\ applied[m2][j].e.value = client'.reply.value]_vars

\* C13 - ClientSet: on a node that is not Leader it replies success=false and
\* changes no state; on a Leader it appends exactly the entry
\* (current_term, key, value) at the tail of the log, leaves the earlier
\* entries, commit_index, last_applied and kv_store as they are and replies
\* success=true.
ClientSetContract ==
    [][\A n \in Node, k \in Keys, v \in Values :
          ClientSet(n, k, v) =>
              /\ client'.reply.op = "set"
              /\ UNCHANGED <<commit_index, last_applied, kv_store>>
              /\ \A m \in Node \ {n} : log'[m] = log[m]
              /\ IF state[n] = LEADER
                 THEN /\ client'.reply.success
                      /\ Len(log'[n]) = Len(log[n]) + 1
                      /\ Prefix(log'[n], Len(log[n])) = log[n]
                      /\ log'[n][Len(log'[n])] = Entry(current_term[n], k, v)
                 ELSE /\ ~client'.reply.success
                      /\ UNCHANGED <<current_term, voted_for, log, next_index,
                                     match_index, state, leader_id,
                                     blocked_peers, election, heartbeat>>]_vars

\* a Leader has appended a second entry to its log, a non-Leader has refused
ClientSetWitness ==
    /\ client.reply = Reply("set", "ok", TRUE, "", 1)
    /\ \E n \in Node : state[n] = LEADER /\ Len(log[n]) = 2

\* what ClientGet is to return for key k on a node that has applied hist
Visible(hist, k) ==
    IF WithKey(hist, k) = {}
    THEN Reply("get", "ok", FALSE, "", -1)
    ELSE Reply("get", "ok", TRUE, hist[MaxOf(WithKey(hist, k))].e.value, -1)

\* C14 - ClientGet: on a Leader it returns found=true and the value of the
\* highest-index applied entry with the key when the node has applied such
\* an entry, found=false otherwise (an entry that is appended but not applied
\* is not visible); on a non-Leader it fails with the not-leader error.
ClientGetContract ==
    [][/\ \A n \in Node, k \in Keys :
             (ClientGet(n, k) /\ state[n] # LEADER) =>
                 client'.reply = Reply("get", "not_leader", FALSE, "", -1)
       /\ ClientGetRead =>
             client'.reply = Visible(applied[client.node], client.key)]_vars

\* a Leader that has applied two entries with different values for the key
\* and holds nothing more has answered with the value of the second one
ClientGetWitness ==
    \E n \in Node :
        /\ state[n] = LEADER
        /\ Len(applied[n]) = 2
        /\ applied[n][1].e.value # applied[n][2].e.value
        /\ client.reply = Reply("get", "ok", TRUE, applied[n][2].e.value, -1)

\* C15 - Monotonicity: no step of any node decreases its current_term, its
\* commit_index or its last_applied.
Monotonicity ==
    [][\A n \in Node :
          /\ current_term'[n] >= current_term[n]
          /\ commit_index'[n] >= commit_index[n]
          /\ last_applied'[n] >= last_applied[n]]_vars

\* C16 - Committed entries are never truncated: no step removes or replaces
\* a log entry at an index <= the commit_index of its node.
CommittedNeverTruncated ==
    [][\A n \in Node :
          \A i \in 0..Min(commit_index[n], Len(log[n]) - 1) :
              /\ i < Len(log'[n])
              /\ At(log'[n], i) = At(log[n], i)]_vars

\* C17 - Leader append-only: once n has become Leader in term t, and as long
\* as its current_term is t, every step leaves its log a prefix of the new
\* log.
LeaderAppendOnly ==
    [][\A n \in Node :
          (<<n, current_term[n]>> \in leaderHist
               /\ current_term'[n] = current_term[n])
          => /\ Len(log'[n]) >= Len(log[n])
             /\ Prefix(log'[n], Len(log[n])) = log[n]]_vars

\* C20 - Isolated Leader: a Leader whose blocked_peers holds every other
\* node keeps, as long as that setting stays, the Leader role and its
\* current_term, and its commit_index does not advance.
IsolatedLeader ==
    [][\A n \in Node :
          (/\ state[n] = LEADER
           /\ blocked_peers[n] = Node \ {n}
           /\ blocked_peers'[n] = blocked_peers[n])
          => /\ state'[n] = LEADER
             /\ current_term'[n] = current_term[n]
             /\ commit_index'[n] = commit_index[n]]_vars

(***************************************************************************)
(* Claims on the Byzantine Primary and on the sequence numbers of BOrder   *)
(***************************************************************************)
\* the block carries the corrupted hash a wrong_hash Primary puts in it
Corrupted(block) ==
    block.block_hash =
        CorruptHash(compute_hash(block.data, block.previous_hash,
                                 block.block_height))

\* Replica r has accepted the Pre-prepare of block
AcceptedPrePrepare(r, block) ==
    \/ <<block.sequence_number, block>> \in pre_prepare_log[r]
    \/ pending_block[r] = block

\* C18 - Byzantine Primary: the block a wrong_hash Primary circulates is
\* accepted in Pre-prepare by no Replica and appended by no node, the
\* Primary included.
ByzantinePrimary ==
    \A i \in 1..Len(proposed) :
        Corrupted(proposed[i].block) =>
            /\ \A r \in BNode \ {Primary} :
                  ~AcceptedPrePrepare(r, proposed[i].block)
            /\ \A n \in BNode : ~InChain(n, proposed[i].block)

\* a wrong_hash Primary has proposed a block after an honest one that every
\* node appended, and every broadcast has ended
ByzantinePrimaryWitness ==
    /\ Len(proposed) = 2
    /\ Corrupted(proposed[2].block)
    /\ \A n \in BNode : InChain(n, proposed[1].block)
    /\ threads = {}

\* C19 - Sequence monotonicity: on an honest node sequence_number never
\* decreases, and the blocks of its chain carry strictly increasing sequence
\* numbers.
SequenceMonotonicity ==
    [][\A n \in BNode :
          /\ Honest(n) => sequence_number'[n] >= sequence_number[n]
          /\ ~is_malicious'[n] =>
                \A i \in 2..Len(blockchain'[n]) :
                    blockchain'[n][i].sequence_number
                        > blockchain'[n][i - 1].sequence_number]_vars

\* a node has appended, right after genesis, the block numbered 2: its
\* sequence_number went from 0 to 1 and 2 and its chain skips number 1
SequenceMonotonicityWitness ==
    \E n \in BNode :
        /\ Len(blockchain[n]) >= 2
        /\ blockchain[n][2].sequence_number = 2
        /\ sequence_number[n] = 2

(***************************************************************************)
(* Claims on the handlers and the election of RLog                         *)
(***************************************************************************)
\* the fields of node p a peer's request can change
NodeState(p) ==
    <<current_term[p], state[p], voted_for[p], leader_id[p], log[p],
      commit_index[p], last_heartbeat[p]>>

\* C21 - Inbound partition filter: an AppendEntries or RequestVote from a
\* sender the receiver has in blocked_peers is answered success=false /
\* vote_granted=false and changes no field of the receiver, whatever term
\* it carries.
InboundPartitionFilter ==
    [][\A s \in Node :
          /\ (AppendEntries(s)
                 /\ s \in blocked_peers[PeerAt(s, heartbeat[s].peer)]) =>
                /\ ~heartbeat'[s].rpc.success
                /\ NodeState(PeerAt(s, heartbeat[s].peer))'
                      = NodeState(PeerAt(s, heartbeat[s].peer))
          /\ (RequestVote(s)
                 /\ s \in blocked_peers[PeerAt(s, election[s].peer)]) =>
                /\ ~election'[s].rpc.vote_granted
                /\ NodeState(PeerAt(s, election[s].peer))'
                      = NodeState(PeerAt(s, election[s].peer))]_vars

\* a Leader of a higher term has got the reply of a node that has it in
\* blocked_peers
InboundPartitionWitness ==
    \E s \in Node :
        /\ state[s] = LEADER
        /\ heartbeat[s].pc = "wait"
        /\ heartbeat[s].rpc.type = "resp"
        /\ s \in blocked_peers[PeerAt(s, heartbeat[s].peer)]
        /\ heartbeat[s].rpc.term < current_term[s]

\* the nodes that gave their vote to n in term t, n included
Voters(n, t) == {p \in Node : <<p, n, t>> \in voteHist}

\* C24 - Winning an election: a node becomes Leader for term t only if, at
\* that moment, it is a Candidate with current_term = t and a strict majority
\* of the nodes, itself included, gave it their vote in term t.
WinningElection ==
    [][\A n \in Node :
          (ElectionTally(n) /\ ElectionWins(n)) =>
              /\ state[n] = CANDIDATE
              /\ Majority(Cardinality(Voters(n, current_term[n])))]_vars

\* n asks for votes for itself with a request of term t
Campaigns(n, t) ==
    /\ election[n].pc = "wait"
    /\ election[n].rpc.type = "req"
    /\ election[n].rpc.term = t

\* the candidates n has given its vote to in term t
VotedFor(n, t) ==
    {c \in Node : <<n, c, t>> \in voteHist}
        \cup (IF Campaigns(n, t) THEN {n} ELSE {})

\* C28 - One vote per term: in every term a node gives its vote to at most
\* one candidate, counting itself when it starts or continues an election in
\* that term.
OneVotePerTerm ==
    \A n \in Node : \A t \in 1..MaxTerm : Cardinality(VotedFor(n, t)) <= 1

\* the state the spec gives a node p that has handled a request of term t
\* higher than its own, from sender s: term t, Follower, no vote but one
\* given to s by this request
Adopted(p, s, t) ==
    /\ current_term'[p] = t
    /\ state'[p] = FOLLOWER
    /\ voted_for'[p] \in {None, s}

\* C25 - Higher-term adoption on requests: after a node has handled a
\* RequestVote or AppendEntries of a peer it has not blocked, with a term
\* greater than its current_term, its current_term is that term, it is
\* Follower and voted_for is cleared, but for a vote this request got.
HigherTermAdoption ==
    [][\A s \in Node :
          /\ (RequestVote(s)
                 /\ s \notin blocked_peers[PeerAt(s, election[s].peer)]
                 /\ election[s].rpc.term
                       > current_term[PeerAt(s, election[s].peer)]) =>
                /\ Adopted(PeerAt(s, election[s].peer), s, election[s].rpc.term)
                /\ voted_for'[PeerAt(s, election[s].peer)] = s
                       => election'[s].rpc.vote_granted
          /\ (AppendEntries(s)
                 /\ s \notin blocked_peers[PeerAt(s, heartbeat[s].peer)]
                 /\ heartbeat[s].rpc.term
                       > current_term[PeerAt(s, heartbeat[s].peer)]) =>
                /\ Adopted(PeerAt(s, heartbeat[s].peer), s, heartbeat[s].rpc.term)
                /\ voted_for'[PeerAt(s, heartbeat[s].peer)] = None]_vars

\* node n, Leader or Candidate, takes in a reply of term t higher than its own
SteppedDown(n, t) ==
    (state[n] \in {LEADER, CANDIDATE} /\ t > current_term[n]) =>
        current_term'[n] = t /\ state'[n] = FOLLOWER

\* C26 - Step-down on reply: a Leader or Candidate that receives a reply to
\* AppendEntries or RequestVote with a term greater than its current_term
\* adopts that term and becomes Follower at once.
StepDownOnReply ==
    [][\A n \in Node :
          /\ ElectionReply(n) => SteppedDown(n, election[n].rpc.term)
          /\ HeartbeatReply(n) => SteppedDown(n, heartbeat[n].rpc.term)]_vars

\* C27 - Election timer reset: the election timer of a node is set again
\* when it accepts an AppendEntries (sender not blocked, term >= current_term)
\* and when its RequestVote handler grants a vote, so that it starts no
\* election of its own before a fresh timeout has passed.
ElectionTimerReset ==
    [][\A s \in Node :
          /\ (AppendEntries(s)
                 /\ ~AppendEntriesRejected(PeerAt(s, heartbeat[s].peer), s,
                                           heartbeat[s].rpc)) =>
                ~(TimedOut(PeerAt(s, heartbeat[s].peer)))'
          /\ (RequestVote(s) /\ election'[s].rpc.vote_granted) =>
                ~(TimedOut(PeerAt(s, election[s].peer)))']_vars

\* the log lg2 of a follower whose log was lg, after the request rq
Reconciled(lg, lg2, rq) ==
    /\ Len(lg2) >= rq.prev_log_index + 1 + Len(rq.entries)
    /\ SubSeq(lg2, rq.prev_log_index + 2,
              rq.prev_log_index + 1 + Len(rq.entries)) = rq.entries
    /\ Prefix(lg2, rq.prev_log_index + 1) = Prefix(lg, rq.prev_log_index + 1)

\* C29 - AppendEntries reconciliation: after an AppendEntries handler that
\* replies success=true the log of the follower holds, from prev_log_index+1
\* on, exactly the entries sent, and the entries up to prev_log_index are
\* unchanged.
AppendEntriesReconciliation ==
    [][\A s \in Node :
          (AppendEntries(s) /\ heartbeat'[s].rpc.success) =>
              Reconciled(log[PeerAt(s, heartbeat[s].peer)],
                         log'[PeerAt(s, heartbeat[s].peer)],
                         heartbeat[s].rpc)]_vars

\* index i of the log of n may be committed by counting replicas
Committable(n, i) ==
    /\ At(log[n], i).term = current_term[n]
    /\ Majority(ReplicaCount(match_index'[n], n, i))

\* C30 - Commit rule: when commit advancement sets commit_index to i, the
\* entry at i carries the current term and is held, by match_index, by a
\* strict majority of the nodes, the node itself included; i is the highest
\* such index, and an entry of an earlier term is not committed by counting.
CommitRule ==
    [][\A n \in Node :
          (HeartbeatReply(n) /\ commit_index'[n] # commit_index[n]) =>
              /\ commit_index'[n] > commit_index[n]
              /\ Committable(n, commit_index'[n])
              /\ \A j \in (commit_index'[n] + 1)..(Len(log[n]) - 1) :
                    ~Committable(n, j)]_vars

\* a Leader of a term after the first has committed the first entry of its
\* log while it holds a second one
CommitRuleWitness ==
    \E n \in Node :
        /\ state[n] = LEADER
        /\ current_term[n] > 1
        /\ Len(log[n]) >= 2
        /\ commit_index[n] = 0
        /\ \E p \in Node \ {n} : match_index[n][p] = 0

\* the log of Leader n holds at index i an entry of its term: an entry that
\* ClientSet appended on n since it became Leader
AppendedByLeader(n, i) ==
    /\ state[n] = LEADER
    /\ Len(log[n]) > i
    /\ At(log[n], i).term = current_term[n]

\* the entry at index i of the log of n is applied on n, and ClientGet on n
\* for its key gives the value of the last applied entry with that key
Served(n, i) ==
    /\ Len(log[n]) > i
    /\ last_applied[n] >= i
    /\ LET k == At(log[n], i).key
           later == {j \in i..last_applied[n] : At(log[n], j).key = k}
       IN ClientGetResponse(n, k)
              = Reply("get", "ok", TRUE, At(log[n], MaxOf(later)).value, -1)

Connected(S) ==
    /\ \A a \in S, b \in S : b \notin blocked_peers[a]
    /\ \A o \in Node \ S, m \in S :
          m \in blocked_peers[o] \/ o \in blocked_peers[m]

\* no Leader exchanges messages with a node of the group S
NoLeaderInContact(S) == \A l \in S : state[l] # LEADER

\* the highest term of a Leader so far, 0 when there was none
LastLeaderTerm == MaxOf({h[2] : h \in leaderHist} \cup {0})

\* a node of S may still start an election within the bounds of the run
MayElect(S) ==
    /\ elections < MaxElections
    /\ \A n \in S : current_term[n] < MaxTerm

CommitOnlyAsLeader ==
    [][\A n \in Node :
          (HeartbeatReply(n) /\ state[n] # LEADER) =>
              /\ commit_index'[n] = commit_index[n]
              /\ match_index'[n] = match_index[n]
              /\ next_index'[n] = next_index[n]]_vars

\* C32 - Only Leaders send AppendEntries: a node that sends an AppendEntries
\* request is Leader at the time of sending and won the election of the
\* term the request carries.
OnlyLeadersSend ==
    [][\A n \in Node :
          (HeartbeatSend(n) /\ heartbeat'[n].pc = "wait") =>
              /\ state[n] = LEADER
              /\ <<n, heartbeat'[n].rpc.term>> \in leaderHist]_vars

\* C33 - Index bounds: in every reachable state of every node
\* last_applied <= commit_index <= len(log) - 1.
IndexBounds ==
    \A n \in Node :
        /\ last_applied[n] <= commit_index[n]
        /\ commit_index[n] <= Len(log[n]) - 1

(***************************************************************************)
(* Claims on the phases of BOrder                                          *)
(***************************************************************************)
\* the Primary proposed a block in wrong_hash mode, whose Pre-prepare every
\* Replica has answered, and is honest again, as every other node is
\* (a corrupted block passes the _verify_block of no node)
RejectedBefore(block) ==
    /\ Len(proposed) = 2
    /\ Corrupted(proposed[1].block)
    /\ block = proposed[2].block
    /\ ~Corrupted(block)
    /\ Malicious = {}
    /\ \A u \in threads : u.block # proposed[1].block

\* C34 - A rejected Pre-prepare does not poison the cluster: the block the
\* Primary, honest again, submits after the honest Replicas have rejected
\* the Pre-prepare of a corrupted block is accepted by them in Pre-prepare.
NoPoison ==
    [][\A th \in threads :
          (BroadcastPrePrepare(th) /\ RejectedBefore(th.block)) =>
              PrePrepareAccepted(PeerAt(th.node, th.pos), view_number[th.node],
                                 th.block.sequence_number, th.block)]_vars

\* the sets of nodes whose messages make a quorum at lines 223 and 281
QuorumSets == {S \in SUBSET BNode : Cardinality(S) = Quorum}

\* the sets of nodes that may be Byzantine: at most f of them
ByzantineSets == {S \in SUBSET BNode : Cardinality(S) <= f}

\* two quorums and the Byzantine nodes of a cluster of the size the servers
\* deploy
InitBQ ==
    /\ RInit
    /\ BInitNodes({}, MaxPreempt)
    /\ \E a \in QuorumSets, b \in QuorumSets, z \in ByzantineSets :
           quorum_sets = [a |-> a, b |-> b, byzantine |-> z,
                          shared |-> {}, done |-> FALSE]

\* the honest nodes two sets of nodes share
SharedHonest(a, b, byzantine) == (a \cap b) \ byzantine

Intersect ==
    /\ ~quorum_sets.done
    /\ quorum_sets' =
           [quorum_sets EXCEPT
               !.shared = SharedHonest(quorum_sets.a, quorum_sets.b,
                                       quorum_sets.byzantine),
               !.done = TRUE]
    /\ UNCHANGED <<rvars, view_number, sequence_number, blockchain,
                   pending_block, pre_prepare_log, prepare_log, commit_log,
                   is_malicious, malicious_type, threads, down, running,
                   preempt_left, proposed, toggles, ever_malicious>>

SpecBQ == InitBQ /\ [][Intersect]_vars

\* C35 - Quorum intersection: with N = 5, f = 1 and Q = 3, any two sets of Q
\* nodes share at least one honest node when at most f nodes are Byzantine.
QuorumIntersection == quorum_sets.done => quorum_sets.shared # {}

\* node p has recorded a quorum of Prepare senders for the block
Prepared(p, block) ==
    Count(prepare_log[p], block.sequence_number, block.block_hash) >= Quorum

\* the block node p appends in the step
Appended(p) == blockchain'[p][Len(blockchain'[p])]

\* C36 - Execute only when prepared: a node appends a block for sequence s
\* with hash h only after it has recorded at least Q distinct Prepare
\* senders for (s, h) in its own prepare_log.
ExecuteOnlyWhenPrepared ==
    [][\A p \in BNode :
          Len(blockchain'[p]) > Len(blockchain[p]) =>
              Prepared(p, Appended(p))]_vars

\* C37 - Execution gate: a node appends a block only in the handler of a
\* Commit that carries its current view and sequence_number and the hash of
\* its pending_block, when its commit_log, in which a sender is recorded once
\* per (sequence, hash), holds at least Q senders for them; the block is the
\* pending_block, which is cleared, and it was not in the chain before.
ExecutionGate ==
    [][\A p \in BNode :
          Len(blockchain'[p]) > Len(blockchain[p]) =>
              /\ pending_block[p] # NoBlock
              /\ blockchain'[p] = Append(blockchain[p], pending_block[p])
              /\ Count(commit_log'[p], sequence_number[p],
                       pending_block[p].block_hash) >= Quorum
              /\ \E th \in threads :
                     /\ BroadcastCommit(th)
                     /\ Callee(th) = p
                     /\ view_number[th.node] = view_number[p]
                     /\ th.block.sequence_number = sequence_number[p]
                     /\ th.hash = pending_block[p].block_hash
              /\ pending_block'[p] = NoBlock
              /\ \A i \in 1..Len(blockchain[p]) :
                     blockchain[p][i].block_hash
                         # pending_block[p].block_hash]_vars

\* a node has appended its pending block on a quorum of Commits while
\* another node, with fewer Commits recorded for it, still holds the block
ExecutionGateWitness ==
    \E p \in BNode, q \in BNode :
        /\ Len(blockchain[p]) = 2
        /\ pending_block[p] = NoBlock
        /\ Count(commit_log[p], sequence_number[p],
                 blockchain[p][2].block_hash) >= Quorum
        /\ pending_block[q] = blockchain[p][2]
        /\ Count(commit_log[q], sequence_number[q],
                 pending_block[q].block_hash) \in 1..(Quorum - 1)

\* the _broadcast_commit workers started in the step
CommitsStarted == {th \in threads' \ threads : th.kind = "commit" /\ th.pos = 1}

\* C38 - Commit gate: a node starts the broadcast of a Commit for (s, h) only
\* if it has recorded at least Q distinct Prepare senders for (s, h), s is
\* its current sequence_number and h is the hash of its pending_block; a
\* quorum of Prepares on another hash starts none.
CommitGate ==
    [][\A th \in CommitsStarted :
          /\ Count(prepare_log'[th.node], th.block.sequence_number, th.hash)
                 >= Quorum
          /\ th.block.sequence_number = sequence_number[th.node]
          /\ pending_block[th.node] # NoBlock
          /\ th.hash = pending_block[th.node].block_hash
          /\ th.block = pending_block[th.node]]_vars

\* a node that appended the first block holds the second one as pending
\* block and has recorded a quorum of Prepares on the all-zero hash for it;
\* no Commit for it was sent and every broadcast has ended
CommitGateWitness ==
    \E p \in BNode :
        /\ Len(blockchain[p]) = 2
        /\ pending_block[p] # NoBlock
        /\ Count(prepare_log[p], sequence_number[p], ZeroHash) >= Quorum
        /\ \A q \in BNode : \A x \in commit_log[q] : x[1] # sequence_number[p]
        /\ threads = {}

====
